---------------------------- MODULE Spec2Model ----------------------------
(***************************************************************************)
(* A model of sensudata/ifql:                                              *)
(*   - query/execute/source.go : RegisterSource and storageSource          *)
(*     (AddTransformation, Run, Next)                                      *)
(*   - functions/stddev.go     : StddevAgg (Welford accumulator)           *)
(*   - unnamed/part_000        : ToHTTPOpSpec.ReadArgs and                 *)
(*     ToHTTPTransformation (Process, Finish)                              *)
(*                                                                         *)
(* Six specifications share the module, one per component:                 *)
(*   Spec       the storage source feeding its subscribers                 *)
(*   SpecReg    the source registry                                        *)
(*   SpecStddev the stddev aggregate                                       *)
(*   SpecHTTP   the toHTTP sink: arguments, one Process call, Finish       *)
(*   SpecPlan   registration and the procedure specs of stddev and toHTTP  *)
(*   SpecParse  the operation graph the parser builds                      *)
(* Each keeps the variables of the other components at their initial       *)
(* values.                                                                 *)
(***************************************************************************)
EXTENDS Integers, Sequences, FiniteSets, TLC

(***************************************************************************)
(* Bounds of the model.                                                    *)
(***************************************************************************)
\* Time and Duration are int64 in the source.  The model keeps two's
\* complement wrap-around on the range -(MaxTime+1) .. MaxTime.
MaxTime == 2
\* Largest window duration (Every, Period) drawn as an input.
MaxDur == 2
\* Largest number of subscribers added to a source.
MaxSubs == 2
\* Largest number of blocks one BlockIterator yields.
MaxBlocks == 2
\* Largest number of reader.Read calls followed in one run.
MaxReads == 3
\* Largest number of RegisterSource calls followed.
MaxRegs == 3
\* Largest number of values folded into the aggregate between two New*Agg.
MaxVals == 3
\* Largest slice handed to one Do* call.
MaxSlice == 2
\* Largest number of Do* calls between two New*Agg.
MaxDoCalls == 2
\* float64 holds every integer up to 2^53 exactly; the model scales that
\* threshold down to ExactInt.  Integer inputs range two past it.
ExactInt == 2
\* Largest timeout argument given to toHTTP, in seconds (the least is -1).
MaxTimeout == 2
\* Largest number of rows of a block handed to ToHTTPTransformation.Process.
MaxRows == 2
\* Largest number of operations one parsed query creates.
MaxOps == 3
\* Largest number of joins in one parsed query.
MaxJoins == 1

Nil == "nil"
\* An optional Time: None, or Some(x).
None == <<>>
Some(x) == <<x>>

VARIABLES
    \* ---- storageSource (source.go:33-43)
    ts,            \* s.ts: the handles of the subscribed transformations
    currentTime,   \* s.currentTime
    window,        \* s.window: [Every, Period]
    bounds,        \* s.bounds: [Stop]
    \* ---- position of Run and the locals of its loop
    pc,            \* "setup" | "next" | "process" | "uptime" | "mark" | "finish" | "done"
    blocks,        \* number of blocks of the batch Next returned
    mark,          \* the mark Next returned
    bi,            \* index of the block blocks.Do is handing to its callback
    ti,            \* index into s.ts of the loop in progress
    \* ---- environment
    cancelled,     \* ctx has been cancelled
    readErr,       \* the error returned by the last reader.Read (Nil if none)
    \* ---- history of the run (what the reader and the subscribers observed)
    c0,            \* the currentTime the source was built with
    nReads,        \* number of reader.Read calls so far
    nBatches,      \* number of batches Next returned with ok=true
    readStart,     \* start of the last reader.Read
    readStop,      \* stop of the last reader.Read
    wmAtRead,      \* largest watermark sent before the last reader.Read (None if none)
    wmMax,         \* largest watermark sent so far (None if none)
    calls,         \* <<subscriber, call, argument>> received for the current batch, in order
    lastCall,      \* per subscriber: the last call it received ("" if none)
    finishCount,   \* per subscriber: number of Finish calls received
    finishErr,     \* per subscriber: err of the last Finish received
    lateCalls,     \* per subscriber: calls received after its first Finish
    wmPrev,        \* per subscriber: watermark of the UpdateWatermark before the last
    wmLast,        \* per subscriber: watermark of the last UpdateWatermark
    activeAfterCancel, \* a Read or Process was issued after ctx was cancelled
    \* ---- the source registry (source.go:23)
    procedureToSource, \* the map: kind -> CreateSource (Nil for a kind it does not hold)
    regLog,            \* the RegisterSource calls so far: [k, c, panicked]
    \* ---- StddevAgg (stddev.go:54-56)
    agg,           \* the accumulator: [n, m2, mean], each a float64
    aggKind,       \* which New{Int,UInt,Float}Agg handed the accumulator out last ("" if none)
    newResult,     \* what the last New*Agg returned: "agg" or Nil ("" if none)
    folded,        \* the values folded since the last New{Int,UInt,Float}Agg, as given
    doCalls,       \* number of Do* calls since the last New{Int,UInt,Float}Agg
    value,         \* what ValueFloat returned last (Unset if not called since)
    lastNew,       \* which New*Agg was called last: "bool" | "int" | "uint" | "float" | "string" ("" if none)
    typeResult,    \* what Type() returned last ("" if not called)
    earlierFolded, \* a partition before the current one folded at least one value
    \* ---- toHTTP: the arguments and the ToHTTPOpSpec made of them
    args,          \* the query.Arguments given to createToHTTPOpSpec
    parsed,        \* "no" | "ok" | "err": what createToHTTPOpSpec returned
    opSpec,        \* the ToHTTPOpSpec (t.spec.Spec)
    \* ---- toHTTP: one Process call
    hpc,           \* position of Process: "parse" | "idle" | "newreq" | "ctx" | "do" | "wait" | "check" | "close" | "returned"
    block,         \* the block b: [cols, rows, chunks]
    perr,          \* the variable err of Process, shared with the encoder goroutine
    ret,           \* what Process returned ("" while it has not)
    deadline,      \* the timeout of the request's context (None if it has none)
    reqMade,       \* the client was asked to send the request
    resp,          \* the status of the response (None if none)
    prClosed,      \* the read end of the pipe is closed
    \* ---- toHTTP: the encoder goroutine
    gpc,           \* "none" | "build" | "encode" | "close" | "exited" | "panic"
    ci,            \* index of the column reader b.Do is handing to the callback
    metric,        \* the httpOutputMetric m: [t, fields, tags]
    written,       \* the records written to the pipe, in order: [row, t, fields, tags]
    encErrs,       \* number of Encode calls that failed on the metric itself
    pipeErrs,      \* number of Encode calls that failed on the closed pipe
    invalidType,   \* a value column of an unsupported type was met
    \* ---- toHTTP: Finish
    dFinish,       \* the err handed to t.d.Finish ("" if not called)
    \* ---- planning: the registries and the procedure specs of stddev and toHTTP
    procReg,       \* plan's registry: procedure kind -> procedure-spec factory (Nil if none)
    transReg,      \* execute's registry: procedure kind -> transformation factory (Nil if none)
    inits,         \* the registrations the init functions made: [kind, proc, trans]
    qsIn,          \* the OperationSpec handed to the procedure-spec factory
    proc,          \* the ProcedureSpec the factory returned (None if none)
    procErr,       \* the error the factory returned ("" if not called)
    copied,        \* what proc.Copy() returned (None if not called)
    lookup,        \* the transformation factory found under a spec's Kind(): [of, factory]
    trans,         \* the ToHTTPTransformation built: [spec] (None if none)
    transErr,      \* the error createToHTTPTransformation returned ("" if not called)
    planOutcome,   \* what Process of trans did with t.spec.Spec: "" | "ok" | "panic"
    nextObj,       \* number of objects allocated so far
    \* ---- the parser's query spec (NewQuery)
    ops,           \* QuerySpec.Operations: the operations, in creation order
    edges,         \* QuerySpec.Edges: [Parent, Child] over operation IDs, in creation order
    opCounter,     \* the counter the next operation ID ends with
    env,           \* variable name -> the last operation of the pipeline bound to it
    cur,           \* the last operation of the chain being parsed (None outside one)
    binding,       \* the name the statement being parsed declares (None if none)
    ppc,           \* parser position: "stmt" | "expr" | "ident" | "chain"
    nCalls,        \* function calls parsed so far
    nStmts,        \* statements begun so far
    joins          \* the joins parsed: [ID, receiver, refs, resolved]

srcVars == <<ts, currentTime, window, bounds, pc, blocks, mark, bi, ti,
             cancelled, readErr, c0, nReads, nBatches, readStart, readStop,
             wmAtRead, wmMax, calls, lastCall, finishCount, finishErr, lateCalls,
             wmPrev, wmLast, activeAfterCancel>>

regVars == <<procedureToSource, regLog>>

aggVars == <<agg, aggKind, newResult, folded, doCalls, value, lastNew, typeResult, earlierFolded>>

httpVars == <<args, parsed, opSpec, hpc, block, perr, ret, deadline, reqMade, resp,
              prClosed, gpc, ci, metric, written, encErrs, pipeErrs, invalidType, dFinish>>

planVars == <<procReg, transReg, inits, qsIn, proc, procErr, copied, lookup, trans,
              transErr, planOutcome, nextObj>>

parseVars == <<ops, edges, opCounter, env, cur, binding, ppc, nCalls, nStmts, joins>>

vars == <<srcVars, regVars, aggVars, httpVars, planVars, parseVars>>
\* What the storage source, the registry, the aggregate, the sink, the
\* planner and the parser each leave alone.
notSrcVars == <<regVars, aggVars, httpVars, planVars, parseVars>>
notRegVars == <<srcVars, aggVars, httpVars, planVars, parseVars>>
notAggVars == <<srcVars, regVars, httpVars, planVars, parseVars>>
notHttpVars == <<srcVars, regVars, aggVars, planVars, parseVars>>
notPlanVars == <<srcVars, regVars, aggVars, httpVars, parseVars>>
notParseVars == <<srcVars, regVars, aggVars, httpVars, planVars>>

(***************************************************************************)
(* Time arithmetic: Go's int64 addition and subtraction wrap.              *)
(***************************************************************************)
TimeMod == 2 * (MaxTime + 1)
MinTime == -(MaxTime + 1)
Times == MinTime .. MaxTime
Durations == -1 .. MaxDur
Subs == 1 .. MaxSubs

Wrap(x) == ((x - MinTime) % TimeMod) + MinTime

\* source.go:88  start := s.currentTime - Time(s.window.Period)
NextStart(ct, w) == Wrap(ct - w.Period)
\* Mutant: stop is read after currentTime was advanced.
NextStopAfterAdvance(ct, w) == Wrap(ct + w.Every)
\* source.go:89  stop := s.currentTime
NextStop(ct, w) == ct
\* Mutant: currentTime steps backwards.
AdvanceBackwards(ct, w) == Wrap(ct - w.Every)
\* source.go:91  s.currentTime = s.currentTime + Time(s.window.Every)
Advance(ct, w) == Wrap(ct + w.Every)
\* Mutant: the bound is tested one step late.
PastBoundsOffByOne(stop, b) == stop > b.Stop + 1
\* source.go:92  if stop > s.bounds.Stop { return nil, 0, false }
PastBounds(stop, b) == stop > b.Stop
\* source.go:106 return bi, stop, true
NextMark(start, stop) == stop
\* source.go:83  t.Finish(s.id, nil)
FinishArg(err) == Nil


\* Mutant: the loops are nested the other way round (subscribers outside).
AfterBlockCallSubscriberMajor(i, b, n, nb) ==
    IF b < nb THEN [ti |-> i, bi |-> b + 1, pc |-> "process"]
    ELSE IF i < n THEN [ti |-> i + 1, bi |-> 1, pc |-> "process"]
    ELSE [ti |-> 1, bi |-> b, pc |-> "mark"]
\* source.go:70-77  blocks.Do(func(b Block) { for _, t := range s.ts {...} }):
\* the position after the calls for block b on subscriber index i, with n
\* subscribers and nb blocks.
AfterBlockCall(i, b, n, nb) ==
    IF i < n THEN [ti |-> i + 1, bi |-> b, pc |-> "process"]
    ELSE IF b < nb THEN [ti |-> 1, bi |-> b + 1, pc |-> "process"]
    ELSE [ti |-> 1, bi |-> b, pc |-> "mark"]
\* Mutant: the Finish loop stops one subscriber early.
FinishLoopStopsEarly(i, n) == i + 1 < n
\* source.go:82  for _, t := range s.ts: another subscriber after index i of n.
FinishLoopMore(i, n) == i < n

Max(a, b) == IF a >= b THEN a ELSE b

(***************************************************************************)
(* NewStorageSource (source.go:45-54): any start time, window and bounds.  *)
(***************************************************************************)
InitSource ==
    /\ ts = <<>>
    /\ currentTime \in Times
    /\ window \in [Every : Durations, Period : Durations]
    /\ bounds \in [Stop : Times]
    /\ pc = "setup"
    /\ blocks = 0
    /\ mark = 0
    /\ bi = 0
    /\ ti = 0
    /\ cancelled = FALSE
    /\ readErr = Nil
    /\ c0 = currentTime
    /\ nReads = 0
    /\ nBatches = 0
    /\ readStart = 0
    /\ readStop = 0
    /\ wmAtRead = None
    /\ wmMax = None
    /\ calls = <<>>
    /\ lastCall = [t \in Subs |-> ""]
    /\ finishCount = [t \in Subs |-> 0]
    /\ finishErr = [t \in Subs |-> ""]
    /\ lateCalls = [t \in Subs |-> 0]
    /\ wmPrev = [t \in Subs |-> None]
    /\ wmLast = [t \in Subs |-> None]
    /\ activeAfterCancel = FALSE

\* What a subscriber records when it receives a call.
Received(t, op) ==
    /\ lastCall' = [lastCall EXCEPT ![t] = op]
    /\ lateCalls' = [lateCalls EXCEPT ![t] = @ + (IF finishCount[t] > 0 THEN 1 ELSE 0)]

\* func (s *storageSource) AddTransformation(t Transformation)
AddTransformation ==
    /\ pc = "setup"
    /\ Len(ts) < MaxSubs
    /\ ts' = Append(ts, Len(ts) + 1)
    /\ UNCHANGED notSrcVars
    /\ UNCHANGED <<currentTime, window, bounds, pc, blocks, mark, bi, ti,
                   cancelled, readErr, c0, nReads, nBatches, readStart, readStop,
                   wmAtRead, wmMax, calls, lastCall, finishCount, finishErr,
                   lateCalls, wmPrev, wmLast, activeAfterCancel>>

\* Run is entered (source.go:60-68): the tracing set-up changes no state.
RunStart ==
    /\ pc = "setup"
    /\ pc' = "next"
    /\ UNCHANGED notSrcVars
    /\ UNCHANGED <<ts, currentTime, window, bounds, blocks, mark, bi, ti,
                   cancelled, readErr, c0, nReads, nBatches, readStart, readStop,
                   wmAtRead, wmMax, calls, lastCall, finishCount, finishErr,
                   lateCalls, wmPrev, wmLast, activeAfterCancel>>

\* Where Run goes when its loop ends: the Finish loop, or past it.
ToFinish == IF Len(ts) > 0 THEN "finish" ELSE "done"
\* Where Run goes with a batch of nb blocks.
ToBatch(nb) == IF Len(ts) = 0 THEN "next"
               ELSE IF nb > 0 THEN "process" ELSE "mark"

\* The loop head of Run calls Next, which returns ok=false past the bounds.
NextPastBounds ==
    /\ pc = "next"
    /\ LET stop == NextStop(currentTime, window) IN
         /\ PastBounds(stop, bounds)
         /\ currentTime' = Advance(currentTime, window)
         /\ pc' = ToFinish
         /\ ti' = 1
    /\ UNCHANGED notSrcVars
    /\ UNCHANGED <<ts, window, bounds, blocks, mark, bi,
                   cancelled, readErr, c0, nReads, nBatches, readStart, readStop,
                   wmAtRead, wmMax, calls, lastCall, finishCount, finishErr,
                   lateCalls, wmPrev, wmLast, activeAfterCancel>>

\* What every reader.Read call records, whatever it returns.
ReadIssued(start, stop) ==
    /\ nReads' = nReads + 1
    /\ readStart' = start
    /\ readStop' = stop
    /\ wmAtRead' = wmMax
    /\ activeAfterCancel' = (activeAfterCancel \/ cancelled)

\* Next calls reader.Read, which fails: the error is logged, ok=false.
NextReadError ==
    /\ pc = "next"
    /\ nReads < MaxReads
    /\ LET start == NextStart(currentTime, window)
           stop == NextStop(currentTime, window) IN
         /\ ~PastBounds(stop, bounds)
         /\ currentTime' = Advance(currentTime, window)
         /\ ReadIssued(start, stop)
         /\ readErr' = "readError"
         /\ pc' = ToFinish
         /\ ti' = 1
    /\ UNCHANGED notSrcVars
    /\ UNCHANGED <<ts, window, bounds, blocks, mark, bi, cancelled, c0,
                   nBatches, wmMax, calls, lastCall, finishCount, finishErr,
                   lateCalls, wmPrev, wmLast>>

\* Next calls reader.Read, which returns an iterator over nb blocks.
NextReadOk ==
    /\ pc = "next"
    /\ nReads < MaxReads
    /\ LET start == NextStart(currentTime, window)
           stop == NextStop(currentTime, window) IN
         /\ ~PastBounds(stop, bounds)
         /\ currentTime' = Advance(currentTime, window)
         /\ ReadIssued(start, stop)
         /\ readErr' = Nil
         /\ nBatches' = nBatches + 1
         /\ mark' = NextMark(start, stop)
         /\ \E nb \in 0 .. MaxBlocks :
              /\ blocks' = nb
              /\ pc' = ToBatch(nb)
         /\ bi' = 1
         /\ ti' = 1
         /\ calls' = <<>>
    /\ UNCHANGED notSrcVars
    /\ UNCHANGED <<ts, window, bounds, cancelled, c0, wmMax, lastCall,
                   finishCount, finishErr, lateCalls, wmPrev, wmLast>>

\* source.go:72  t.Process(s.id, b)
Process ==
    /\ pc = "process"
    /\ Received(ts[ti], "Process")
    /\ calls' = Append(calls, <<ts[ti], "Process", bi>>)
    /\ activeAfterCancel' = (activeAfterCancel \/ cancelled)
    /\ pc' = "uptime"
    /\ UNCHANGED notSrcVars
    /\ UNCHANGED <<ts, currentTime, window, bounds, blocks, mark, bi, ti,
                   cancelled, readErr, c0, nReads, nBatches, readStart, readStop,
                   wmAtRead, wmMax, finishCount, finishErr, wmPrev, wmLast>>

\* source.go:75  t.UpdateProcessingTime(s.id, Now()), then the loops advance.
UpdateProcessingTime ==
    /\ pc = "uptime"
    /\ Received(ts[ti], "UpdateProcessingTime")
    /\ calls' = Append(calls, <<ts[ti], "UpdateProcessingTime", bi>>)
    /\ LET to == AfterBlockCall(ti, bi, Len(ts), blocks) IN
         /\ ti' = to.ti
         /\ bi' = to.bi
         /\ pc' = to.pc
    /\ UNCHANGED notSrcVars
    /\ UNCHANGED <<ts, currentTime, window, bounds, blocks, mark,
                   cancelled, readErr, c0, nReads, nBatches, readStart, readStop,
                   wmAtRead, wmMax, finishCount, finishErr, wmPrev, wmLast,
                   activeAfterCancel>>

\* source.go:78-80  t.UpdateWatermark(s.id, mark) for each subscriber.
UpdateWatermark ==
    /\ pc = "mark"
    /\ Received(ts[ti], "UpdateWatermark")
    /\ calls' = Append(calls, <<ts[ti], "UpdateWatermark", mark>>)
    /\ wmPrev' = [wmPrev EXCEPT ![ts[ti]] = wmLast[ts[ti]]]
    /\ wmLast' = [wmLast EXCEPT ![ts[ti]] = Some(mark)]
    /\ wmMax' = IF wmMax = None THEN Some(mark) ELSE Some(Max(wmMax[1], mark))
    /\ IF ti < Len(ts)
         THEN /\ ti' = ti + 1
              /\ pc' = "mark"
         ELSE /\ ti' = 1
              /\ pc' = "next"
    /\ UNCHANGED notSrcVars
    /\ UNCHANGED <<ts, currentTime, window, bounds, blocks, mark, bi,
                   cancelled, readErr, c0, nReads, nBatches, readStart, readStop,
                   wmAtRead, finishCount, finishErr, activeAfterCancel>>

\* source.go:82-84  t.Finish(s.id, nil) for each subscriber.
Finish ==
    /\ pc = "finish"
    /\ Received(ts[ti], "Finish")
    /\ finishCount' = [finishCount EXCEPT ![ts[ti]] = @ + 1]
    /\ finishErr' = [finishErr EXCEPT ![ts[ti]] = FinishArg(readErr)]
    /\ IF FinishLoopMore(ti, Len(ts))
         THEN /\ ti' = ti + 1
              /\ pc' = "finish"
         ELSE /\ ti' = ti
              /\ pc' = "done"
    /\ UNCHANGED notSrcVars
    /\ UNCHANGED <<ts, currentTime, window, bounds, blocks, mark, bi,
                   cancelled, readErr, c0, nReads, nBatches, readStart, readStop,
                   wmAtRead, wmMax, calls, wmPrev, wmLast, activeAfterCancel>>

\* The caller cancels the context handed to Run while Run is active.
Cancel ==
    /\ pc \in {"next", "process", "uptime", "mark"}
    /\ ~cancelled
    /\ cancelled' = TRUE
    /\ UNCHANGED notSrcVars
    /\ UNCHANGED <<ts, currentTime, window, bounds, pc, blocks, mark, bi, ti,
                   readErr, c0, nReads, nBatches, readStart, readStop, wmAtRead, wmMax,
                   calls, lastCall, finishCount, finishErr, lateCalls,
                   wmPrev, wmLast, activeAfterCancel>>

(***************************************************************************)
(* float64.  A float is <<"fin", p, q>> (the rational p/q in lowest terms, *)
(* q > 0), <<"inf", 1, 0>>, <<"inf", -1, 0>> or <<"nan", 0, 0>>.           *)
(* Arithmetic is exact inside the finite range and follows IEEE 754        *)
(* outside it: a result past FloatMax overflows to an infinity, and        *)
(* Inf - Inf, 0 * Inf, 0 / 0 and the root of a negative number are NaN.    *)
(* Rounding of the 53-bit mantissa is modelled only in the conversion of   *)
(* an integer to float64, where it alone already changes the data.         *)
(* The square root of a rational p/q is kept as <<"root", p, q>>.          *)
(***************************************************************************)
\* The largest integer input (int64, uint64) of the model.
MaxIntInput == ExactInt + 2
\* The largest finite float64.  As in Go, where squares of int64
\* differences summed over any slice stay far below it.
FloatMax == (MaxVals + 1) * (2 * MaxIntInput) * (2 * MaxIntInput)

Abs(x) == IF x < 0 THEN -x ELSE x
Sign(x) == IF x < 0 THEN -1 ELSE IF x > 0 THEN 1 ELSE 0

RECURSIVE Gcd(_, _)
Gcd(x, y) == IF y = 0 THEN x ELSE Gcd(y, x % y)

NaN == <<"nan", 0, 0>>
Inf(sgn) == <<"inf", sgn, 0>>
Unset == <<"unset", 0, 0>>
IsNaN(x) == x[1] = "nan"
IsInf(x) == x[1] = "inf"
IsFin(x) == x[1] = "fin"

\* The float64 nearest to the rational p/q (q # 0): itself inside the
\* finite range, an infinity past it.
Fin(p, q) ==
    LET sp == IF q < 0 THEN -p ELSE p
        sq == Abs(q)
        g == Gcd(Abs(sp), sq)
    IN IF Abs(sp) > FloatMax * sq THEN Inf(Sign(sp))
       ELSE <<"fin", sp \div g, sq \div g>>
FromInt(i) == Fin(i, 1)

\* x + y
FAdd(x, y) ==
    IF IsNaN(x) \/ IsNaN(y) THEN NaN
    ELSE IF IsInf(x) /\ IsInf(y) THEN (IF x[2] = y[2] THEN x ELSE NaN)
    ELSE IF IsInf(x) THEN x
    ELSE IF IsInf(y) THEN y
    ELSE Fin(x[2] * y[3] + y[2] * x[3], x[3] * y[3])
\* -x
FNeg(x) == IF IsNaN(x) THEN NaN ELSE IF IsInf(x) THEN Inf(-x[2]) ELSE <<"fin", -x[2], x[3]>>
\* x - y
FSub(x, y) == FAdd(x, FNeg(y))
\* x * y
FMul(x, y) ==
    IF IsNaN(x) \/ IsNaN(y) THEN NaN
    ELSE IF IsInf(x) \/ IsInf(y)
      THEN (IF x[2] = 0 \/ y[2] = 0 THEN NaN ELSE Inf(Sign(x[2]) * Sign(y[2])))
    ELSE Fin(x[2] * y[2], x[3] * y[3])
\* x / y
FDiv(x, y) ==
    IF IsNaN(x) \/ IsNaN(y) THEN NaN
    ELSE IF IsInf(x) THEN (IF IsInf(y) THEN NaN
                           ELSE Inf(x[2] * (IF y[2] < 0 THEN -1 ELSE 1)))
    ELSE IF IsInf(y) THEN FromInt(0)
    ELSE IF y[2] = 0 THEN (IF x[2] = 0 THEN NaN ELSE Inf(Sign(x[2])))
    ELSE Fin(x[2] * y[3], x[3] * y[2])
\* x < y (false when either is NaN)
FLt(x, y) ==
    IF IsNaN(x) \/ IsNaN(y) THEN FALSE
    ELSE IF IsInf(x) THEN x[2] < 0 /\ ~(IsInf(y) /\ y[2] < 0)
    ELSE IF IsInf(y) THEN y[2] > 0
    ELSE x[2] * y[3] < y[2] * x[3]
\* math.Sqrt(x)
FSqrt(x) ==
    IF IsNaN(x) THEN NaN
    ELSE IF IsInf(x) THEN (IF x[2] > 0 THEN x ELSE NaN)
    ELSE IF x[2] < 0 THEN NaN
    ELSE <<"root", x[2], x[3]>>
\* r * r for a result r of FSqrt
FSquare(r) == IF r[1] = "root" THEN <<"fin", r[2], r[3]>> ELSE FMul(r, r)

\* float64(v) for an int64 or uint64 v: exact up to ExactInt; past it only
\* every second integer is a float64, and a tie rounds to the even one.
IntToFloat(v) ==
    IF Abs(v) <= ExactInt THEN FromInt(v)
    ELSE LET d == Abs(v) - ExactInt
             k == d \div 2
             up == IF d % 2 = 0 THEN k ELSE IF k % 2 = 0 THEN k ELSE k + 1
         IN FromInt(Sign(v) * (ExactInt + 2 * up))

(***************************************************************************)
(* StddevAgg (stddev.go:54-130).                                           *)
(***************************************************************************)
\* The inputs drawn: for int64 and uint64, small values, the two values
\* around the last exactly converted one and the extremes; for float64,
\* small values, a fraction and two finite values of large magnitude.
\* float64 absorbs a small addend into a large value; the exact arithmetic
\* of the model does not, so the large inputs keep the distance of the
\* small ones from FloatMax and overflow where float64 does: in the
\* difference of two large values of opposite sign and in their products.
IntInputs == {-MaxIntInput, -1, 0, ExactInt, ExactInt + 1}
UIntInputs == {0, 1, ExactInt, ExactInt + 1, MaxIntInput}
SmallFloats == {FromInt(0), FromInt(2), Fin(1, 2)}
BigFloat == FloatMax - 2
FloatInputs == SmallFloats \cup {FromInt(BigFloat), FromInt(-BigFloat)}
\* The slices over S one Do* call may be handed when room values fit.
Slices(S, room) ==
    UNION {[1 .. len -> S] : len \in 0 .. (IF room < MaxSlice THEN room ELSE MaxSlice)}

\* stddev.go:63-67  reset
ResetAgg == [n |-> FromInt(0), mean |-> FromInt(0), m2 |-> FromInt(0)]

\* stddev.go:93-98, 104-109, 115-119  the body of the loop over vs
Welford(a, x) ==
    LET n1 == FAdd(a.n, FromInt(1))
        delta == FSub(x, a.mean)
        mean1 == FAdd(a.mean, FDiv(delta, n1))
        delta2 == FSub(x, mean1)
    IN [n |-> n1, mean |-> mean1, m2 |-> FAdd(a.m2, FMul(delta, delta2))]

\* for _, v := range vs { ... } over float64 values
RECURSIVE FoldAll(_, _)
FoldAll(a, xs) == IF xs = <<>> THEN a ELSE FoldAll(Welford(a, Head(xs)), Tail(xs))

\* Mutant: the n < 2 guard is missing.
ValueFloatUnguarded(a) == FSqrt(FDiv(a.m2, FSub(a.n, FromInt(1))))
\* stddev.go:125-130  ValueFloat
ValueFloatOf(a) ==
    IF FLt(a.n, FromInt(2)) THEN NaN
    ELSE FSqrt(FDiv(a.m2, FSub(a.n, FromInt(1))))

\* stddev.go:58-61  new(StddevAgg): the zero value.
InitAgg ==
    /\ agg = ResetAgg
    /\ aggKind = ""
    /\ newResult = ""
    /\ folded = <<>>
    /\ doCalls = 0
    /\ value = Unset
    /\ lastNew = ""
    /\ typeResult = ""
    /\ earlierFolded = FALSE

\* Mutant: New{Int,UInt,Float}Agg forgets to call reset.
NewAggStateNoReset(a) == a
\* stddev.go:73, 78, 83  a.reset()
NewAggState(a) == ResetAgg

\* New{Int,UInt,Float}Agg: reset, and hand the accumulator out.
NewNumericAgg(kind) ==
    /\ agg' = NewAggState(agg)
    /\ aggKind' = kind
    /\ newResult' = "agg"
    /\ folded' = <<>>
    /\ doCalls' = 0
    /\ value' = Unset
    /\ lastNew' = kind
    /\ earlierFolded' = (earlierFolded \/ folded # <<>>)
    /\ UNCHANGED typeResult
    /\ UNCHANGED notAggVars
\* stddev.go:72-75
NewIntAgg == NewNumericAgg("int")
\* stddev.go:77-80
NewUIntAgg == NewNumericAgg("uint")
\* stddev.go:82-85
NewFloatAgg == NewNumericAgg("float")

\* New{Bool,String}Agg: return nil and touch nothing.
NewRejectedAgg(kind) ==
    /\ newResult' = Nil
    /\ lastNew' = kind
    /\ UNCHANGED <<agg, aggKind, folded, doCalls, value, typeResult, earlierFolded>>
    /\ UNCHANGED notAggVars
\* stddev.go:68-70
NewBoolAgg == NewRejectedAgg("bool")
\* stddev.go:87-89
NewStringAgg == NewRejectedAgg("string")

\* A Do* call folding the float64 values xs, given as the values ins.
DoFold(ins, xs) ==
    /\ agg' = FoldAll(agg, xs)
    /\ folded' = folded \o ins
    /\ doCalls' = doCalls + 1
    /\ value' = Unset
    /\ UNCHANGED <<aggKind, newResult, lastNew, typeResult, earlierFolded>>
    /\ UNCHANGED notAggVars

\* stddev.go:90-100
DoInt ==
    /\ aggKind = "int"
    /\ doCalls < MaxDoCalls
    /\ \E vs \in Slices(IntInputs, MaxVals - Len(folded)) :
         DoFold([i \in 1 .. Len(vs) |-> FromInt(vs[i])],
                [i \in 1 .. Len(vs) |-> IntToFloat(vs[i])])
\* stddev.go:101-111
DoUInt ==
    /\ aggKind = "uint"
    /\ doCalls < MaxDoCalls
    /\ \E vs \in Slices(UIntInputs, MaxVals - Len(folded)) :
         DoFold([i \in 1 .. Len(vs) |-> FromInt(vs[i])],
                [i \in 1 .. Len(vs) |-> IntToFloat(vs[i])])
\* stddev.go:112-121
DoFloat ==
    /\ aggKind = "float"
    /\ doCalls < MaxDoCalls
    /\ \E vs \in Slices(FloatInputs, MaxVals - Len(folded)) : DoFold(vs, vs)

\* stddev.go:125-130
ValueFloat ==
    /\ aggKind # ""
    /\ value = Unset
    /\ value' = ValueFloatOf(agg)
    /\ UNCHANGED <<agg, aggKind, newResult, folded, doCalls, lastNew, typeResult, earlierFolded>>
    /\ UNCHANGED notAggVars

\* Mutant: Type reports the type of the input.
TypeOfInput(kind) ==
    IF kind = "int" THEN "TInt" ELSE IF kind = "uint" THEN "TUInt" ELSE "TFloat"
\* stddev.go:122-124  return execute.TFloat
TypeOf(kind) == "TFloat"

\* func (a *StddevAgg) Type() execute.DataType
Type ==
    /\ typeResult' = TypeOf(aggKind)
    /\ UNCHANGED <<agg, aggKind, newResult, folded, doCalls, value, lastNew, earlierFolded>>
    /\ UNCHANGED notAggVars

(***************************************************************************)
(* The source registry (source.go:21-30).                                  *)
(***************************************************************************)
\* Procedure kinds and CreateSource values; Nil is Go's nil func value.
Kinds == {"select", "range"}
Factories == {"createA", "createB"}

\* source.go:23  var procedureToSource = make(map[plan.ProcedureKind]CreateSource)
InitRegistry ==
    /\ procedureToSource = [k \in Kinds |-> Nil]
    /\ regLog = <<>>

\* Mutant: the duplicate check is missing.
IsDuplicateNever(m, k) == FALSE
\* source.go:26  if procedureToSource[k] != nil
IsDuplicate(m, k) == m[k] # Nil

\* func RegisterSource(k plan.ProcedureKind, c CreateSource)
RegisterSource ==
    /\ Len(regLog) < MaxRegs
    /\ \E k \in Kinds, c \in Factories \cup {Nil} :
         IF IsDuplicate(procedureToSource, k)
           THEN \* source.go:27  panic(...)
                /\ regLog' = Append(regLog, [k |-> k, c |-> c, panicked |-> TRUE])
                /\ UNCHANGED procedureToSource
           ELSE \* source.go:29  procedureToSource[k] = c
                /\ regLog' = Append(regLog, [k |-> k, c |-> c, panicked |-> FALSE])
                /\ procedureToSource' = [procedureToSource EXCEPT ![k] = c]
    /\ UNCHANGED notRegVars

\* A source that is built and left alone.
IdleSource ==
    /\ InitSource
    /\ currentTime = 0
    /\ window = [Every |-> 0, Period |-> 0]
    /\ bounds = [Stop |-> 0]

(***************************************************************************)
(* The toHTTP sink (unnamed/part_000): strings and their order.        *)
(***************************************************************************)
\* part_000:26  DefaultToHTTPTimeout = 1 * time.Second (the model counts seconds)
DefaultToHTTPTimeout == 1
\* part_000:118, 140  the default column labels
DefaultTimeColLabel == "_time"
DefaultValueColLabel == "_value"

\* The column labels of the model, in the byte order Go compares strings by
\* ('H' < '_' < 'h', and "_t" < "_v").
LabelOrder == <<"Host", "_time", "_value", "host">>
Labels == {LabelOrder[i] : i \in 1 .. Len(LabelOrder)}
Rank(l) == CHOOSE i \in 1 .. Len(LabelOrder) : LabelOrder[i] = l
\* Go's a < b on strings
StrLess(a, b) == Rank(a) < Rank(b)

\* sort.Strings
RECURSIVE InsertSorted(_, _)
InsertSorted(x, ys) ==
    IF ys = <<>> THEN <<x>>
    ELSE IF StrLess(Head(ys), x) THEN <<Head(ys)>> \o InsertSorted(x, Tail(ys))
    ELSE <<x>> \o ys
RECURSIVE SortStrings(_)
SortStrings(xs) ==
    IF xs = <<>> THEN <<>> ELSE InsertSorted(Head(xs), SortStrings(Tail(xs)))

\* sort.Search over [i, j): the binary search of the standard library,
\* with f(h) == a[h] >= x (indices from 0).
RECURSIVE Search(_, _, _, _)
Search(a, x, i, j) ==
    IF i >= j THEN i
    ELSE LET h == (i + j) \div 2 IN
         IF StrLess(a[h + 1], x) THEN Search(a, x, h + 1, j) ELSE Search(a, x, i, h)
\* sort.SearchStrings(a, x): the index at which x would be inserted into a
SearchStrings(a, x) == Search(a, x, 0, Len(a))

\* strings.ToUpper on the method names of the model
ToUpper(str) ==
    IF str = "put" THEN "PUT" ELSE IF str = "post" THEN "POST" ELSE str

(***************************************************************************)
(* ToHTTPOpSpec.ReadArgs and createToHTTPOpSpec (part_000:81-170).       *)
(***************************************************************************)
\* part_000:56-67  the zero ToHTTPOpSpec that new(ToHTTPOpSpec) makes
ZeroSpec ==
    [Addr |-> "", Name |-> "", Method |-> "", Timeout |-> 0, TimeColumn |-> "",
     TagColumns |-> <<>>, ValueColumns |-> <<>>]

\* No argument given at all.
NoArgs ==
    [addr |-> None, name |-> None, method |-> None, timeout |-> None,
     time_column |-> None, tag_columns |-> None, value_columns |-> None]

GoodAddr == "http://sink/write"
\* An address http.NewRequest cannot parse.
BadAddr == ":bad"
TimeoutArgs == {None} \cup {Some(d) : d \in -1 .. MaxTimeout}

\* The arguments a query gives toHTTP: every combination of timeout,
\* time_column, tag_columns and value_columns with addr and name given,
\* and the combinations of addr, name and method with nothing else given.
HTTPArgs ==
    {[NoArgs EXCEPT !.addr = Some(GoodAddr), !.name = Some("m"),
                    !.timeout = t, !.time_column = tc,
                    !.tag_columns = tg, !.value_columns = vc] :
        t \in TimeoutArgs, tc \in {None, Some("host")},
        tg \in {None, Some(<<"host", "Host">>)},
        vc \in {None, Some(<<>>), Some(<<"host", "_value">>)}}
    \cup
    {[NoArgs EXCEPT !.addr = a, !.name = n, !.method = me] :
        a \in {None, Some(GoodAddr), Some(BadAddr)}, n \in {None, Some("m")},
        me \in {None, Some("put")}}

\* part_000:142-144  for i ... { o.TagColumns = append(o.ValueColumns, valueColumns.Get(i).Str()) }
RECURSIVE AppendValueColumns(_, _, _)
AppendValueColumns(o, vs, i) ==
    IF i > Len(vs) THEN o
    ELSE AppendValueColumns([o EXCEPT !.TagColumns = Append(o.ValueColumns, vs[i])], vs, i + 1)

\* part_000:81-156  ReadArgs on the spec o: the error returned and the
\* spec as the call leaves it.
ReadArgsOf(o, a) ==
    IF a.addr = None THEN [err |-> "missing required keyword argument addr", o |-> o]
    ELSE LET o1 == [o EXCEPT !.Addr = a.addr[1]] IN
    IF a.name = None THEN [err |-> "missing required keyword argument name", o |-> o1]
    ELSE LET o2 == [o1 EXCEPT
                      !.Name = a.name[1],
                      !.Method = ToUpper(IF a.method = None THEN "POST" ELSE a.method[1]),
                      !.Timeout = IF a.timeout = None THEN DefaultToHTTPTimeout
                                  ELSE a.timeout[1],
                      !.TimeColumn = IF a.time_column = None THEN DefaultTimeColLabel
                                     ELSE a.time_column[1],
                      !.TagColumns = IF a.tag_columns = None THEN <<>>
                                     ELSE SortStrings(a.tag_columns[1]),
                      !.ValueColumns = <<>>]
             o3 == IF a.value_columns = None \/ Len(a.value_columns[1]) = 0
                     THEN [o2 EXCEPT !.ValueColumns = Append(o2.ValueColumns, DefaultValueColLabel)]
                     ELSE LET o4 == AppendValueColumns(o2, a.value_columns[1], 1)
                          IN [o4 EXCEPT !.TagColumns = SortStrings(o4.TagColumns)]
         IN [err |-> Nil, o |-> o3]

\* The state before createToHTTPOpSpec is called.
InitHTTP ==
    /\ args = NoArgs
    /\ parsed = "no"
    /\ opSpec = ZeroSpec
    /\ hpc = "parse"
    /\ block = [cols |-> [l \in Labels |-> "absent"], chunks |-> <<>>]
    /\ perr = Nil
    /\ ret = ""
    /\ deadline = None
    /\ reqMade = FALSE
    /\ resp = None
    /\ prClosed = FALSE
    /\ gpc = "none"
    /\ ci = 0
    /\ metric = [t |-> 0, fields |-> {}, tags |-> {}]
    /\ written = <<>>
    /\ encErrs = 0
    /\ pipeErrs = 0
    /\ invalidType = FALSE
    /\ dFinish = ""

\* part_000:158-170  createToHTTPOpSpec: ReadArgs on a new spec; the
\* spec is returned only when ReadArgs returned no error.
createToHTTPOpSpec ==
    /\ hpc = "parse"
    /\ parsed = "no"
    /\ \E a \in HTTPArgs :
         LET r == ReadArgsOf(ZeroSpec, a) IN
           /\ args' = a
           /\ parsed' = IF r.err = Nil THEN "ok" ELSE "err"
           /\ opSpec' = IF r.err = Nil THEN r.o ELSE ZeroSpec
           /\ hpc' = IF r.err = Nil THEN "idle" ELSE "parse"
    /\ UNCHANGED <<block, perr, ret, deadline, reqMade, resp, prClosed, gpc, ci, metric,
                   written, encErrs, pipeErrs, invalidType, dFinish>>
    /\ UNCHANGED notHttpVars

(***************************************************************************)
(* ToHTTPTransformation.Process (part_000:277-361): the caller's thread  *)
(* and the encoder goroutine, coupled by an io.Pipe.                       *)
(***************************************************************************)
\* The column types of the model; "absent" marks a label the block lacks.
\* TInvalid is the zero DataType, which no case of the switch handles.
ColTypeChoices ==
    [Labels -> {"absent", "TTime", "TFloat", "TString", "TInvalid"}]
\* The blocks handed to Process: an optional Time column "_time", an
\* optional value column "_value", String columns "Host" and "host".
BlockCols ==
    {c \in ColTypeChoices :
        /\ c["_time"] \in {"absent", "TTime"}
        /\ c["_value"] \in {"absent", "TFloat", "TInvalid"}
        /\ c["Host"] \in {"absent", "TString"}
        /\ c["host"] = "TString"}

RECURSIVE SumSeq(_)
SumSeq(xs) == IF xs = <<>> THEN 0 ELSE Head(xs) + SumSeq(Tail(xs))
\* The ways Block.Do hands the rows of a block to its callback: a sequence
\* of column readers, each holding one or more rows.
Chunkings ==
    {c \in UNION {[1 .. k -> 1 .. MaxRows] : k \in 0 .. MaxRows} : SumSeq(c) <= MaxRows}
Blocks == [cols : BlockCols, chunks : Chunkings]

NumRows(b) == SumSeq(b.chunks)
\* The row of the block that is row 0 of its i-th column reader.
FirstRow(b, i) == 1 + SumSeq(SubSeq(b.chunks, 1, i - 1))
\* The value of the time column at row j of the block: row j holds time j.
TimeAt(b, j) == j

\* The types the switch of part_000:307-322 makes a field of.
FieldTypes == {"TFloat", "TInt", "TUInt", "TString", "TTime", "TBool"}

\* part_000:303-325  the case a column falls into
ColumnCase(o, l) ==
    IF l = o.TimeColumn THEN "time"
    ELSE IF SearchStrings(o.ValueColumns, l) < Len(o.ValueColumns) THEN "field"
    ELSE IF SearchStrings(o.TagColumns, l) < Len(o.TagColumns) THEN "tag"
    ELSE "none"

Present(b) == {l \in Labels : b.cols[l] # "absent"}

\* Mutant: the type of the time column is not checked.
TimeColumnErrorNoTypeCheck(o, b) ==
    IF b.cols[o.TimeColumn] = "absent" THEN "Could not get time column" ELSE Nil
\* part_000:289-296  the error Process returns for the time column (Nil if none)
TimeColumnError(o, b) ==
    IF b.cols[o.TimeColumn] = "absent" THEN "Could not get time column"
    ELSE IF b.cols[o.TimeColumn] # "TTime" THEN "column is not of type time"
    ELSE Nil

\* part_000:277-297  Process up to the start of the goroutine.
ToHTTPProcess ==
    /\ hpc = "idle"
    /\ dFinish = ""
    /\ \E b \in Blocks :
         /\ block' = b
         /\ IF TimeColumnError(opSpec, b) # Nil
              THEN /\ ret' = TimeColumnError(opSpec, b)
                   /\ hpc' = "returned"
                   /\ UNCHANGED <<gpc, ci>>
            ELSE /\ hpc' = "newreq"
                 /\ gpc' = IF Len(b.chunks) = 0 THEN "close" ELSE "build"
                 /\ ci' = 1
                 /\ UNCHANGED ret
    /\ UNCHANGED <<args, parsed, opSpec, perr, deadline, reqMade, resp, prClosed, metric,
                   written, encErrs, pipeErrs, invalidType, dFinish>>
    /\ UNCHANGED notHttpVars

\* part_000:337-340  req, err := http.NewRequest(method, addr, pr)
NewRequest ==
    /\ hpc = "newreq"
    /\ gpc # "panic"
    /\ IF opSpec.Addr = BadAddr
         THEN /\ perr' = "parse addr: missing protocol scheme"
              /\ ret' = "parse addr: missing protocol scheme"
              /\ hpc' = "returned"
         ELSE /\ perr' = Nil
              /\ hpc' = "ctx"
              /\ UNCHANGED ret
    /\ UNCHANGED <<args, parsed, opSpec, block, deadline, reqMade, resp, prClosed, gpc,
                   ci, metric, written, encErrs, pipeErrs, invalidType, dFinish>>
    /\ UNCHANGED notHttpVars

\* part_000:342-346  if Timeout <= 0 { ctx, cancel := context.WithTimeout(..., Timeout) }
RequestDeadline(timeout) == IF timeout <= 0 THEN Some(timeout) ELSE None

\* part_000:342-353  the context, then client.Do(req) takes the request.
\* A context whose timeout is not positive has expired already: Do returns
\* its error without sending, and the transport closes the body.
ClientDo ==
    /\ hpc = "ctx"
    /\ gpc # "panic"
    /\ deadline' = RequestDeadline(opSpec.Timeout)
    /\ reqMade' = TRUE
    /\ IF deadline' # None /\ deadline'[1] <= 0
         THEN /\ perr' = "context deadline exceeded"
              /\ prClosed' = TRUE
              /\ hpc' = "check"
         ELSE /\ hpc' = "wait"
              /\ UNCHANGED <<perr, prClosed>>
    /\ UNCHANGED <<args, parsed, opSpec, block, ret, resp, gpc, ci, metric, written,
                   encErrs, pipeErrs, invalidType, dFinish>>
    /\ UNCHANGED notHttpVars

\* The response statuses of the model.
Statuses == {200, 204, 404, 500}

\* part_000:349-351  resp, err = client.Do(req) returns: a response, or
\* an error (the transport then closes the request body).
ClientReturn ==
    /\ hpc = "wait"
    /\ gpc # "panic"
    /\ \/ \E st \in Statuses :
            /\ resp' = Some(st)
            /\ perr' = Nil
            /\ UNCHANGED prClosed
       \/ \E e \in {"connection refused"} \cup
                   (IF deadline # None THEN {"context deadline exceeded"} ELSE {}) :
            /\ perr' = e
            /\ prClosed' = TRUE
            /\ UNCHANGED resp
    /\ hpc' = "check"
    /\ UNCHANGED <<args, parsed, opSpec, block, ret, deadline, reqMade, gpc, ci, metric,
                   written, encErrs, pipeErrs, invalidType, dFinish>>
    /\ UNCHANGED notHttpVars

\* part_000:354-356  if err != nil { return err }
CheckErr ==
    /\ hpc = "check"
    /\ gpc # "panic"
    /\ IF perr # Nil
         THEN ret' = perr /\ hpc' = "returned"
         ELSE hpc' = "close" /\ UNCHANGED ret
    /\ UNCHANGED <<args, parsed, opSpec, block, perr, deadline, reqMade, resp, prClosed,
                   gpc, ci, metric, written, encErrs, pipeErrs, invalidType, dFinish>>
    /\ UNCHANGED notHttpVars

\* part_000:358-360  return req.Body.Close(): closing the read end of
\* the pipe returns nil.
CloseBody ==
    /\ hpc = "close"
    /\ gpc # "panic"
    /\ ret' = Nil
    /\ prClosed' = TRUE
    /\ hpc' = "returned"
    /\ UNCHANGED <<args, parsed, opSpec, block, perr, deadline, reqMade, resp, gpc, ci,
                   metric, written, encErrs, pipeErrs, invalidType, dFinish>>
    /\ UNCHANGED notHttpVars

\* part_000:300-326  the callback of b.Do up to Encode: the metric is
\* rebuilt from row 0 of the column reader.  A tag column that is not of
\* type String makes er.Strings panic.
EncoderBuild ==
    /\ gpc = "build"
    /\ LET row == FirstRow(block, ci)
           fieldCols == {l \in Present(block) : ColumnCase(opSpec, l) = "field"}
           tagCols == {l \in Present(block) : ColumnCase(opSpec, l) = "tag"}
           bad == {l \in fieldCols : block.cols[l] \notin FieldTypes}
       IN /\ metric' = [t |-> TimeAt(block, row),
                   fields |-> fieldCols \ bad,
                   tags |-> tagCols]
          /\ IF bad # {}
               THEN perr' = "invalid type" /\ invalidType' = TRUE
               ELSE UNCHANGED <<perr, invalidType>>
          /\ gpc' = IF \E l \in tagCols : block.cols[l] # "TString"
                      THEN "panic" ELSE "encode"
    /\ UNCHANGED <<args, parsed, opSpec, hpc, block, ret, deadline, reqMade, resp,
                   prClosed, ci, written, encErrs, pipeErrs, dFinish>>
    /\ UNCHANGED notHttpVars

\* part_000:305-328  the records one callback encodes: the metric, built
\* from row 0 of the column reader
RecordsOf(b, i, mt) ==
    << [row |-> FirstRow(b, i), t |-> mt.t, fields |-> mt.fields, tags |-> mt.tags] >>

\* part_000:328-332  _, err := e.Encode(m); the error is printed and
\* the callback returns nil.  Encode fails on a metric without fields and
\* on a pipe whose read end is closed; otherwise its write waits for the
\* client to read the body.
EncoderEncode ==
    /\ gpc = "encode"
    /\ IF metric.fields = {}
         THEN /\ encErrs' = encErrs + 1
              /\ UNCHANGED <<written, pipeErrs>>
         ELSE IF prClosed
         THEN /\ pipeErrs' = pipeErrs + 1
              /\ UNCHANGED <<written, encErrs>>
         ELSE /\ hpc = "wait"
              /\ written' = written \o RecordsOf(block, ci, metric)
              /\ UNCHANGED <<encErrs, pipeErrs>>
    /\ ci' = ci + 1
    /\ gpc' = IF ci + 1 > Len(block.chunks) THEN "close" ELSE "build"
    /\ UNCHANGED <<args, parsed, opSpec, hpc, block, perr, ret, deadline, reqMade, resp,
                   prClosed, metric, invalidType, dFinish>>
    /\ UNCHANGED notHttpVars

\* part_000:334  pw.Close()
EncoderClose ==
    /\ gpc = "close"
    /\ gpc' = "exited"
    /\ UNCHANGED <<args, parsed, opSpec, hpc, block, perr, ret, deadline, reqMade, resp,
                   prClosed, ci, metric, written, encErrs, pipeErrs, invalidType, dFinish>>
    /\ UNCHANGED notHttpVars

\* part_000:369-371  Finish hands the caller's err to the dataset.
ToHTTPFinish ==
    /\ hpc \in {"idle", "returned"}
    /\ gpc # "panic"
    /\ dFinish = ""
    /\ \E e \in {Nil, "upstream error"} : dFinish' = e
    /\ UNCHANGED <<args, parsed, opSpec, hpc, block, perr, ret, deadline, reqMade, resp,
                   prClosed, gpc, ci, metric, written, encErrs, pipeErrs, invalidType>>
    /\ UNCHANGED notHttpVars

(***************************************************************************)
(* Planning: the registrations of stddev.go:18-23 and part_000:69-75, the  *)
(* procedure specs (stddev.go:40-52, part_000:194-212) and                 *)
(* createToHTTPTransformation (part_000:214-223).                          *)
(***************************************************************************)
\* stddev.go:13
StddevKind == "stddev"
\* part_000:25
ToHTTPKind == "toHTTP"
\* The kind constant part_000:199 returns.
CountKind == "count"
ProcedureKinds == {StddevKind, ToHTTPKind, CountKind}

\* Before any init function ran.  The count function registers its own
\* transformation factory, or is not linked in.
InitPlan ==
    /\ procReg = [k \in ProcedureKinds |-> Nil]
    /\ transReg \in {[k \in ProcedureKinds |->
                        IF k = CountKind THEN c ELSE Nil] :
                     c \in {Nil, "createCountTransformation"}}
    /\ inits = {}
    /\ qsIn = [type |-> "nil", ptr |-> None]
    /\ proc = None
    /\ procErr = ""
    /\ copied = None
    /\ lookup = None
    /\ trans = None
    /\ transErr = ""
    /\ planOutcome = ""
    /\ nextObj = 0
IdlePlan == InitPlan /\ transReg[CountKind] = Nil

\* What one init function registers under the kind k.
RegisterFunctions(k, procFactory, transFactory) ==
    /\ procReg[k] = Nil
    /\ procReg' = [procReg EXCEPT ![k] = procFactory]
    /\ transReg' = [transReg EXCEPT ![k] = transFactory]
    /\ inits' = inits \cup {[kind |-> k, proc |-> procFactory, trans |-> transFactory]}
    /\ UNCHANGED <<qsIn, proc, procErr, copied, lookup, trans, transErr, planOutcome, nextObj>>
    /\ UNCHANGED notPlanVars

\* stddev.go:18-23  init
InitStddevFunctions ==
    RegisterFunctions(StddevKind, "newStddevProcedure", "createStddevTransformation")
\* part_000:69-75  init
InitToHTTPFunctions ==
    RegisterFunctions(ToHTTPKind, "newToHTTPProcedure", "createToHTTPTransformation")

AllRegistered == procReg[StddevKind] # Nil /\ procReg[ToHTTPKind] # Nil

\* The ToHTTPOpSpec values createToHTTPOpSpec returns.
ToHTTPOpSpecs ==
    {ReadArgsOf(ZeroSpec, a).o : a \in {x \in HTTPArgs : ReadArgsOf(ZeroSpec, x).err = Nil}}
\* The OperationSpec values handed to a procedure-spec factory: an
\* interface value is a dynamic type and a pointer (None for nil).
OperationSpecs ==
    {[type |-> "*ToHTTPOpSpec", ptr |-> Some(o)] : o \in ToHTTPOpSpecs}
    \cup {[type |-> "*ToHTTPOpSpec", ptr |-> None],
          [type |-> "*StddevOpSpec", ptr |-> Some([Kind |-> StddevKind])],
          [type |-> "nil", ptr |-> None]}

\* part_000:206-212  newToHTTPProcedure: the error and the spec returned
NewToHTTPProcedureOf(q) ==
    LET ok == q.type = "*ToHTTPOpSpec"
        spec == IF ok THEN q.ptr ELSE None
    IN IF ~ok /\ spec # None
         THEN [err |-> "invalid spec type", p |-> None]
         ELSE [err |-> Nil, p |-> Some([type |-> "*ToHTTPProcedureSpec", Spec |-> spec])]

\* A procedure-spec factory is called with q and returns r; the spec it
\* returns is a new object.
ProcedureMade(q, r) ==
    /\ AllRegistered
    /\ procErr = ""
    /\ qsIn' = q
    /\ procErr' = r.err
    /\ proc' = IF r.p = None THEN None
               ELSE Some([id |-> nextObj + 1, type |-> r.p[1].type, Spec |-> r.p[1].Spec])
    /\ nextObj' = IF r.p = None THEN nextObj ELSE nextObj + 1
    /\ UNCHANGED <<procReg, transReg, inits, copied, lookup, trans, transErr, planOutcome>>
    /\ UNCHANGED notPlanVars

\* func newToHTTPProcedure(qs query.OperationSpec, a plan.Administration)
newToHTTPProcedure ==
    \E q \in OperationSpecs : ProcedureMade(q, NewToHTTPProcedureOf(q))

\* stddev.go:43-45  newStddevProcedure
newStddevProcedure ==
    \E q \in {x \in OperationSpecs : x.type = "*StddevOpSpec"} :
       ProcedureMade(q, [err |-> Nil, p |-> Some([type |-> "*StddevProcedureSpec", Spec |-> None])])

\* part_000:198-200, stddev.go:47-49  Kind
KindOf(p) ==
    IF p.type = "*ToHTTPProcedureSpec" THEN CountKind ELSE StddevKind

\* part_000:202-204, stddev.go:50-52  Copy: a new, empty spec of the same type
CopyOf(p) == [type |-> p.type, Spec |-> None]

\* p.Copy()
Copy ==
    /\ proc # None
    /\ copied = None
    /\ copied' = Some([id |-> nextObj + 1, type |-> CopyOf(proc[1]).type,
                       Spec |-> CopyOf(proc[1]).Spec])
    /\ nextObj' = nextObj + 1
    /\ UNCHANGED <<procReg, transReg, inits, qsIn, proc, procErr, lookup, trans, transErr,
                   planOutcome>>
    /\ UNCHANGED notPlanVars

\* The specs at hand: the one the factory made, and its copy.
SpecsAtHand == {proc[i] : i \in 1 .. Len(proc)} \cup {copied[i] : i \in 1 .. Len(copied)}

\* The executor looks the transformation factory up under the spec's Kind().
LookupTransformation ==
    /\ lookup = None
    /\ \E p \in SpecsAtHand :
         lookup' = Some([of |-> p, factory |-> transReg[KindOf(p)]])
    /\ UNCHANGED <<procReg, transReg, inits, qsIn, proc, procErr, copied, trans, transErr,
                   planOutcome, nextObj>>
    /\ UNCHANGED notPlanVars

\* part_000:214-223  createToHTTPTransformation
createToHTTPTransformation ==
    /\ transErr = ""
    /\ \E p \in SpecsAtHand :
         IF p.type # "*ToHTTPProcedureSpec"
           THEN /\ transErr' = "invalid spec type"
                /\ UNCHANGED trans
           ELSE /\ transErr' = Nil
                /\ trans' = Some([spec |-> p])
    /\ UNCHANGED <<procReg, transReg, inits, qsIn, proc, procErr, copied, lookup,
                   planOutcome, nextObj>>
    /\ UNCHANGED notPlanVars

\* part_000:289  Process reads t.spec.Spec.TimeColumn: a nil Spec panics.
TransformationProcess ==
    /\ trans # None
    /\ planOutcome = ""
    /\ planOutcome' = IF trans[1].spec.Spec = None THEN "panic" ELSE "ok"
    /\ UNCHANGED <<procReg, transReg, inits, qsIn, proc, procErr, copied, lookup, trans,
                   transErr, nextObj>>
    /\ UNCHANGED notPlanVars

(***************************************************************************)
(* The parser (NewQuery).  Its code is not part of the sources at hand:    *)
(* the model follows the operation graph the specification requires of it  *)
(* and the graphs TestNewQuery (source.go:108-1042) expects.  A query is   *)
(* a sequence of statements; a statement is a dot-chain that starts with   *)
(* a source call or a declared variable and may be bound to a variable.    *)
(***************************************************************************)
Identifiers == {"a", "b"}
\* "$" in a join expression names the pipeline the join is called on.
Anonymous == "$"
SourceKinds == {"select"}
ChainKinds == {"range"}
JoinKind == "join"

\* An operation ID is the function's name followed by the counter in decimal
\* ("select0", "range1", "join4"); the model keeps the two parts apart.
OperationIDPerKind(kind, n) == [kind |-> kind, n |-> 0]
OperationID(kind, n) == [kind |-> kind, n |-> n]

InitParse ==
    /\ ops = <<>>
    /\ edges = <<>>
    /\ opCounter = 0
    /\ env = [x \in Identifiers |-> None]
    /\ cur = None
    /\ binding = None
    /\ ppc = "stmt"
    /\ nCalls = 0
    /\ nStmts = 0
    /\ joins = <<>>

\* `var x = ...` (b = Some(x)) or a bare expression statement (b = None).
BeginStatement(b) ==
    /\ ppc = "stmt"
    /\ binding' = b
    /\ cur' = None
    /\ ppc' = "expr"
    /\ nStmts' = nStmts + 1
    /\ UNCHANGED <<ops, edges, opCounter, env, nCalls, joins>>
    /\ UNCHANGED notParseVars

\* The first call of a chain: a new operation and no edge.
SourceCall(kind) ==
    /\ ppc = "expr"
    /\ Len(ops) < MaxOps
    /\ LET id == OperationID(kind, opCounter)
       IN /\ ops' = Append(ops, [ID |-> id])
          /\ cur' = Some(id)
    /\ opCounter' = opCounter + 1
    /\ nCalls' = nCalls + 1
    /\ ppc' = "chain"
    /\ UNCHANGED <<edges, env, binding, nStmts, joins>>
    /\ UNCHANGED notParseVars

\* A chain that starts with a declared variable continues that pipeline.
IdentifierRef(x) ==
    /\ ppc = "expr"
    /\ env[x] # None
    /\ cur' = env[x]
    /\ ppc' = "ident"
    /\ UNCHANGED <<ops, edges, opCounter, env, binding, nCalls, nStmts, joins>>
    /\ UNCHANGED notParseVars

\* `.f(...)`: a new operation and the edge from the chain's last operation.
ChainCall(kind) ==
    /\ ppc \in {"ident", "chain"}
    /\ Len(ops) < MaxOps
    /\ LET id == OperationID(kind, opCounter)
       IN /\ ops' = Append(ops, [ID |-> id])
          /\ edges' = Append(edges, [Parent |-> cur[1], Child |-> id])
          /\ cur' = Some(id)
    /\ opCounter' = opCounter + 1
    /\ nCalls' = nCalls + 1
    /\ ppc' = "chain"
    /\ UNCHANGED <<env, binding, nStmts, joins>>
    /\ UNCHANGED notParseVars

\* The pipelines a join expression refers to, in the order it names them.
Resolve(refs, receiver, e) ==
    [i \in 1 .. Len(refs) |->
        IF refs[i] = Anonymous THEN receiver ELSE e[refs[i]][1]]

RECURSIVE Distinct(_, _)
Distinct(seen, s) ==
    IF s = <<>> THEN seen
    ELSE IF \E i \in 1 .. Len(seen) : seen[i] = Head(s)
           THEN Distinct(seen, Tail(s))
           ELSE Distinct(Append(seen, Head(s)), Tail(s))

\* The parents of a join: the pipeline it is called on, then every other
\* pipeline its expression names, each once.
JoinParentsWithDuplicates(receiver, resolved) == <<receiver>> \o resolved
JoinParents(receiver, resolved) == Distinct(<<receiver>>, resolved)

\* The references of a join expression of one operand or of two, in the
\* order they appear: "$" or the names of declared variables.
Declared == {x \in Identifiers : env[x] # None} \cup {Anonymous}
JoinRefs == {<<x>> : x \in Declared} \cup {<<x, y>> : x, y \in Declared}

\* `.join(on: ..., exp: {...})`: a new operation and one edge per parent.
JoinCall(refs) ==
    /\ ppc \in {"ident", "chain"}
    /\ Len(ops) < MaxOps
    /\ Len(joins) < MaxJoins
    /\ LET id == OperationID(JoinKind, opCounter)
           resolved == Resolve(refs, cur[1], env)
           parents == JoinParents(cur[1], resolved)
       IN /\ ops' = Append(ops, [ID |-> id])
          /\ edges' = edges \o [i \in 1 .. Len(parents) |->
                                   [Parent |-> parents[i], Child |-> id]]
          /\ joins' = Append(joins, [ID |-> id, receiver |-> cur[1],
                                     refs |-> refs, resolved |-> resolved])
          /\ cur' = Some(id)
    /\ opCounter' = opCounter + 1
    /\ nCalls' = nCalls + 1
    /\ ppc' = "chain"
    /\ UNCHANGED <<env, binding, nStmts>>
    /\ UNCHANGED notParseVars

\* The end of a statement binds the declared variable to the chain.  A
\* statement holds at least one function call.
EndStatement ==
    /\ ppc = "chain"
    /\ env' = IF binding = None THEN env ELSE [env EXCEPT ![binding[1]] = cur]
    /\ ppc' = "stmt"
    /\ UNCHANGED <<ops, edges, opCounter, cur, binding, nCalls, nStmts, joins>>
    /\ UNCHANGED notParseVars

Init == InitSource /\ InitRegistry /\ InitAgg /\ InitHTTP /\ IdlePlan /\ InitParse

Next ==
    \/ AddTransformation
    \/ RunStart
    \/ NextPastBounds
    \/ NextReadError
    \/ NextReadOk
    \/ Process
    \/ UpdateProcessingTime
    \/ UpdateWatermark
    \/ Finish
    \/ Cancel

Spec == Init /\ [][Next]_vars

InitReg == IdleSource /\ InitRegistry /\ InitAgg /\ InitHTTP /\ IdlePlan /\ InitParse
NextReg == RegisterSource
SpecReg == InitReg /\ [][NextReg]_vars

InitStddev == IdleSource /\ InitRegistry /\ InitAgg /\ InitHTTP /\ IdlePlan /\ InitParse
NextStddev ==
    \/ NewBoolAgg
    \/ NewIntAgg
    \/ NewUIntAgg
    \/ NewFloatAgg
    \/ NewStringAgg
    \/ DoInt
    \/ DoUInt
    \/ DoFloat
    \/ ValueFloat
    \/ Type
SpecStddev == InitStddev /\ [][NextStddev]_vars

InitToHTTP == IdleSource /\ InitRegistry /\ InitAgg /\ InitHTTP /\ IdlePlan /\ InitParse
NextHTTP ==
    \/ createToHTTPOpSpec
    \/ ToHTTPProcess
    \/ NewRequest
    \/ ClientDo
    \/ ClientReturn
    \/ CheckErr
    \/ CloseBody
    \/ EncoderBuild
    \/ EncoderEncode
    \/ EncoderClose
    \/ ToHTTPFinish
SpecHTTP == InitToHTTP /\ [][NextHTTP]_vars

InitPlanning == IdleSource /\ InitRegistry /\ InitAgg /\ InitHTTP /\ InitPlan /\ InitParse
NextPlan ==
    \/ InitStddevFunctions
    \/ InitToHTTPFunctions
    \/ newToHTTPProcedure
    \/ newStddevProcedure
    \/ Copy
    \/ LookupTransformation
    \/ createToHTTPTransformation
    \/ TransformationProcess
SpecPlan == InitPlanning /\ [][NextPlan]_vars

InitParsing == IdleSource /\ InitRegistry /\ InitAgg /\ InitHTTP /\ IdlePlan /\ InitParse
NextParse ==
    \/ \E b \in {None} \cup {Some(x) : x \in Identifiers} : BeginStatement(b)
    \/ \E kind \in SourceKinds : SourceCall(kind)
    \/ \E x \in Identifiers : IdentifierRef(x)
    \/ \E kind \in ChainKinds : ChainCall(kind)
    \/ \E refs \in JoinRefs : JoinCall(refs)
    \/ EndStatement
SpecParse == InitParsing /\ [][NextParse]_vars


(***************************************************************************)
(* Claims about the storage source (checked under Spec).                   *)
(***************************************************************************)
Subscribed == {ts[i] : i \in 1 .. Len(ts)}
InRange(x) == x \in Times

\* C1: on every run that ends, each subscriber receives Finish(id, nil)
\* exactly once, and that Finish is the last call it receives from the
\* source: no subscriber ever has two Finish calls or a call after its
\* Finish, a finished subscriber's error is nil, and when Run has returned
\* every subscriber has its Finish.
C1_FinishNilOnceAndLast ==
    /\ \A t \in Subs :
          /\ finishCount[t] <= 1
          /\ lateCalls[t] = 0
          /\ finishCount[t] = 1 => finishErr[t] = Nil /\ lastCall[t] = "Finish"
    /\ pc = "done" => \A t \in Subscribed : finishCount[t] = 1

\* C1 witness: a run over two batches with two subscribers has returned.
C1_Witness ==
    /\ pc = "done"
    /\ Len(ts) = 2
    /\ nBatches >= 2
    /\ \A t \in Subscribed : finishCount[t] = 1 /\ wmLast[t] # None

\* The calls a batch of nb blocks with mark m makes, in order: for each
\* block, for each subscriber in subscription order, Process then
\* UpdateProcessingTime; then UpdateWatermark(m) for each subscriber.
BatchLen(nb) == 2 * nb * Len(ts) + Len(ts)
ExpectedCall(k, nb, m) ==
    IF k <= 2 * nb * Len(ts)
      THEN LET q == (k - 1) \div 2 IN
           << ts[(q % Len(ts)) + 1],
              IF k % 2 = 1 THEN "Process" ELSE "UpdateProcessingTime",
              (q \div Len(ts)) + 1 >>
      ELSE << ts[k - 2 * nb * Len(ts)], "UpdateWatermark", m >>

\* C2: for every batch, every block goes to Process of every subscriber in
\* subscription order, each Process is immediately followed by
\* UpdateProcessingTime on the same subscriber, and UpdateWatermark(mark)
\* reaches every subscriber after all blocks of the batch and before the
\* next batch is pulled.
C2_BatchCallOrder ==
    nBatches > 0 =>
      /\ Len(calls) <= BatchLen(blocks)
      /\ \A k \in 1 .. Len(calls) : calls[k] = ExpectedCall(k, blocks, mark)
      /\ pc \in {"next", "finish", "done"} => Len(calls) = BatchLen(blocks)

\* C2 witness: a second batch of two blocks was delivered to two subscribers.
C2_Witness ==
    /\ nBatches = 2
    /\ blocks = 2
    /\ Len(ts) = 2
    /\ pc = "next"
    /\ Len(calls) = 10

\* C3 as claimed: for any window configuration and start time, consecutive
\* UpdateWatermark calls on a subscriber carry non-decreasing values.
C3_WatermarkMonotone_AnyWindow ==
    \A t \in Subs : wmPrev[t] # None => wmPrev[t][1] <= wmLast[t][1]

\* The window for which currentTime never wraps before Run ends.
NoWrapForward == window.Every >= 0 /\ bounds.Stop + window.Every <= MaxTime

\* C3 amended: when Every >= 0 and bounds.Stop + Every does not exceed the
\* largest Time, consecutive UpdateWatermark calls on a subscriber carry
\* non-decreasing values.
C3_WatermarkMonotone ==
    NoWrapForward =>
      \A t \in Subs : wmPrev[t] # None => wmPrev[t][1] <= wmLast[t][1]

\* C3 witness: a subscriber received two watermarks, the second larger.
C3_Witness ==
    /\ NoWrapForward
    /\ wmPrev[1] # None
    /\ wmPrev[1][1] < wmLast[1][1]

\* A well-formed window: it advances, its period is not negative, and no
\* Time computed during the run wraps around.
WellFormedWindow ==
    /\ window.Every > 0
    /\ window.Period >= 0
    /\ bounds.Stop + window.Every <= MaxTime
    /\ c0 - window.Period >= MinTime

\* C4 as claimed, for well-formed windows (sliding ones, Period > Every,
\* included): once UpdateWatermark(w) was sent, every later reader.Read
\* uses a window whose start is >= w.
C4_WatermarkSound ==
    (WellFormedWindow /\ nBatches > 0 /\ readErr = Nil /\ wmAtRead # None) =>
      readStart >= wmAtRead[1]

\* C5 as claimed: when reader.Read returned an error, the Finish the
\* subscribers receive carries that error.
C5_FinishCarriesReadError ==
    \A t \in Subs :
      (readErr # Nil /\ finishCount[t] > 0) => finishErr[t] = readErr

\* C6 as claimed: once ctx is cancelled while the run loop is active, no
\* further Read or Process is issued and every subscriber receives Finish
\* with a non-nil error.
C6_CancelStopsAndFinishesWithError ==
    /\ ~activeAfterCancel
    /\ (cancelled /\ pc = "done") => \A t \in Subscribed : finishErr[t] # Nil

\* C7 as claimed: the i-th Read uses stop = c0 + i*Every and
\* start = stop - Period, with start <= stop and stop <= bounds.Stop.
C7_ReadWindows_AnyWindow ==
    nReads > 0 =>
      /\ readStop = c0 + (nReads - 1) * window.Every
      /\ readStart = readStop - window.Period
      /\ readStart <= readStop
      /\ readStop <= bounds.Stop

\* C7 amended: when Period >= 0 and neither c0 + i*Every nor
\* c0 + i*Every - Period leaves the range of Time, the i-th Read uses
\* stop = c0 + i*Every and start = stop - Period, with start <= stop and
\* stop <= bounds.Stop.
C7_ReadWindows ==
    ( /\ nReads > 0
      /\ window.Period >= 0
      /\ InRange(c0 + (nReads - 1) * window.Every)
      /\ InRange(c0 + (nReads - 1) * window.Every - window.Period) ) =>
      /\ readStop = c0 + (nReads - 1) * window.Every
      /\ readStart = readStop - window.Period
      /\ readStart <= readStop
      /\ readStop <= bounds.Stop

\* C7 witness: the third Read of a sliding window.
C7_Witness ==
    /\ nReads = 3
    /\ window.Every = 1
    /\ window.Period = 2
    /\ readStop = c0 + 2
    /\ readStart = c0

\* The number of reads the claim allows: max(0, floor((Stop - c0)/Every) + 1).
MaxReadsOf(start, b, w) == Max(0, ((b.Stop - start) \div w.Every) + 1)

\* C25 as claimed: for any start time, any bounds.Stop below the largest
\* Time and any window with Every > 0, Run performs at most
\* max(0, floor((bounds.Stop - c0)/Every) + 1) reads, and after that many
\* reads the next call of Next ends the loop.
C25_ReadsBounded_AnyBounds ==
    (window.Every > 0 /\ bounds.Stop < MaxTime) =>
      /\ nReads <= MaxReadsOf(c0, bounds, window)
      /\ (pc = "next" /\ nReads = MaxReadsOf(c0, bounds, window)) =>
            PastBounds(NextStop(currentTime, window), bounds)

\* C25 amended: when Every > 0 and bounds.Stop + Every does not exceed the
\* largest Time, Run performs at most
\* max(0, floor((bounds.Stop - c0)/Every) + 1) reads, and once it has
\* performed that many the next call of Next returns ok = false, which
\* takes Run to its Finish loop; before that each pass of the loop
\* performs one read, so the loop cannot go on forever.
C25_ReadsBounded ==
    (window.Every > 0 /\ NoWrapForward) =>
      /\ nReads <= MaxReadsOf(c0, bounds, window)
      /\ (pc = "next" /\ nReads = MaxReadsOf(c0, bounds, window)) =>
            PastBounds(NextStop(currentTime, window), bounds)
      /\ pc \in {"finish", "done"} =>
            (readErr # Nil \/ nReads = MaxReadsOf(c0, bounds, window))

\* C25 witness: a run of three reads, the most its bounds allow, has
\* reached the end of Run.
C25_Witness ==
    /\ window.Every > 0
    /\ NoWrapForward
    /\ MaxReadsOf(c0, bounds, window) = 3
    /\ nReads = 3
    /\ readErr = Nil
    /\ pc = "done"


(***************************************************************************)
(* Claims about the source registry (checked under SpecReg).               *)
(***************************************************************************)
\* The calls before the j-th that returned normally for the same kind.
EarlierOk(j) == {i \in 1 .. (j - 1) : regLog[i].k = regLog[j].k /\ ~regLog[i].panicked}
EarlierOkNonNil(j) == {i \in EarlierOk(j) : regLog[i].c # Nil}
Min(S) == CHOOSE x \in S : \A y \in S : x <= y

\* C8 as claimed: a RegisterSource call for a kind that an earlier call
\* registered panics and leaves the first registered factory in the map; a
\* call for a kind not registered before never panics.
C8_DuplicatePanics_AnyFactory ==
    \A j \in 1 .. Len(regLog) :
      /\ EarlierOk(j) # {} =>
            /\ regLog[j].panicked
            /\ procedureToSource[regLog[j].k] = regLog[Min(EarlierOk(j))].c
      /\ EarlierOk(j) = {} => ~regLog[j].panicked

\* C8 amended: a RegisterSource call for a kind that an earlier call
\* registered with a non-nil factory panics and leaves the first non-nil
\* factory registered for that kind in the map; a call for a kind not
\* registered before never panics.
C8_DuplicatePanics ==
    \A j \in 1 .. Len(regLog) :
      /\ EarlierOkNonNil(j) # {} =>
            /\ regLog[j].panicked
            /\ procedureToSource[regLog[j].k] = regLog[Min(EarlierOkNonNil(j))].c
      /\ EarlierOk(j) = {} => ~regLog[j].panicked

\* C8 witness: a kind was registered, a second registration of it with
\* another factory panicked, and another kind was registered after that.
C8_Witness ==
    /\ Len(regLog) = 3
    /\ regLog[1] = [k |-> "select", c |-> "createA", panicked |-> FALSE]
    /\ regLog[2] = [k |-> "select", c |-> "createB", panicked |-> TRUE]
    /\ regLog[3] = [k |-> "range", c |-> "createB", panicked |-> FALSE]
    /\ procedureToSource["select"] = "createA"

(***************************************************************************)
(* Claims about the stddev aggregate (checked under SpecStddev).           *)
(***************************************************************************)
\* Every folded value is as small as an integer input, so that no
\* intermediate result of the update comes near FloatMax.
SafeInputs == \A i \in 1 .. Len(folded) : Abs(folded[i][2]) <= MaxIntInput * folded[i][3]

RECURSIVE SumOf(_)
SumOf(xs) == IF xs = <<>> THEN FromInt(0) ELSE FAdd(Head(xs), SumOf(Tail(xs)))
MeanOf(xs) == FDiv(SumOf(xs), FromInt(Len(xs)))
SumSqDev(xs) ==
    SumOf([i \in 1 .. Len(xs) |-> FMul(FSub(xs[i], MeanOf(xs)), FSub(xs[i], MeanOf(xs)))])
\* The float64 values one Do* call makes of the values xs.
Converted(kind, xs) ==
    [i \in 1 .. Len(xs) |-> IF kind = "float" THEN xs[i] ELSE IntToFloat(xs[i][2])]

\* C10 as claimed, for inputs far from the overflow range: with n >= 2
\* values folded by DoInt, DoUInt or DoFloat, in any split, m2 is the sum
\* of (x_i - mean(xs))^2, ValueFloat^2 * (n-1) is that sum, and the
\* accumulator is the one a single Do* call over xs leaves.
C10_WelfordIdentity ==
    (aggKind # "" /\ Len(folded) >= 2 /\ SafeInputs) =>
      /\ agg.m2 = SumSqDev(folded)
      /\ value # Unset =>
            FMul(FSquare(value), FromInt(Len(folded) - 1)) = SumSqDev(folded)
      /\ agg = FoldAll(ResetAgg, Converted(aggKind, folded))

\* C11: NewBoolAgg and NewStringAgg return nil, NewIntAgg, NewUIntAgg and
\* NewFloatAgg return the accumulator, reset and ready for Do* calls of that
\* type, and Type() is TFloat whatever the input type.
C11_NumericOnlyFloatOut ==
    /\ lastNew \in {"bool", "string"} => newResult = Nil
    /\ lastNew \in {"int", "uint", "float"} =>
          /\ newResult = "agg"
          /\ aggKind = lastNew
          /\ doCalls = 0 => agg = ResetAgg
    /\ typeResult # "" => typeResult = "TFloat"

\* C11 witness: NewStringAgg was rejected after an int partition folded
\* values, and Type() was called.
C11_Witness ==
    /\ lastNew = "string"
    /\ newResult = Nil
    /\ aggKind = "int"
    /\ Len(folded) > 0
    /\ typeResult = "TFloat"

\* C12: every New{Int,UInt,Float}Agg resets the accumulator to n = 0,
\* mean = 0, m2 = 0, so the accumulator and the value ValueFloat returns
\* are those of a fresh accumulator fed only the values folded since the
\* most recent New{Int,UInt,Float}Agg, whatever earlier partitions folded.
C12_PartitionIndependence ==
    aggKind # "" =>
      /\ (doCalls = 0 /\ lastNew = aggKind) => agg = [n |-> FromInt(0), m2 |-> FromInt(0), mean |-> FromInt(0)]
      /\ agg = FoldAll(ResetAgg, Converted(aggKind, folded))
      /\ value # Unset => value = ValueFloatOf(FoldAll(ResetAgg, Converted(aggKind, folded)))

\* C12 witness: an earlier partition folded values, and the current one
\* folded two values and emitted a number.
C12_Witness ==
    /\ earlierFolded
    /\ Len(folded) = 2
    /\ value # Unset
    /\ ~IsNaN(value)

(***************************************************************************)
(* Claims about the toHTTP sink (checked under SpecHTTP).                  *)
(***************************************************************************)
Range(xs) == {xs[i] : i \in 1 .. Len(xs)}
Is2xx(st) == st >= 200 /\ st <= 299
IsError(e) == e # "" /\ e # Nil
\* The encoder goroutine went through the whole block and no Encode failed.
EncodedCleanly == gpc = "exited" /\ encErrs = 0 /\ pipeErrs = 0

\* C13 as claimed: for a block of r rows, however Block.Do splits them into
\* column readers, the encoder writes r records, the k-th being the record
\* of row k.
C13_OneRecordPerRow ==
    EncodedCleanly =>
      /\ Len(written) = NumRows(block)
      /\ \A k \in 1 .. Len(written) : written[k].row = k

\* C14 as claimed: in every record written, a column other than the time
\* column is a field iff its label is in ValueColumns, and a tag iff its
\* label is in TagColumns and not in ValueColumns.
C14_ColumnClassification ==
    ~invalidType =>
      \A k \in 1 .. Len(written) :
        \A l \in Present(block) \ {opSpec.TimeColumn} :
          /\ l \in written[k].fields <=> l \in Range(opSpec.ValueColumns)
          /\ l \in written[k].tags <=>
                (l \in Range(opSpec.TagColumns) /\ l \notin Range(opSpec.ValueColumns))

\* C15 as claimed: after ReadArgs, TagColumns is the sorted tag_columns
\* argument (empty if absent) and ValueColumns is the value_columns
\* argument, or [_value] when that is absent or empty.
C15_SeparateColumnSets ==
    parsed = "ok" =>
      /\ opSpec.TagColumns =
            (IF args.tag_columns = None THEN <<>> ELSE SortStrings(args.tag_columns[1]))
      /\ opSpec.ValueColumns =
            (IF args.value_columns = None \/ args.value_columns = Some(<<>>)
               THEN <<DefaultValueColLabel>> ELSE args.value_columns[1])

\* C16 as claimed: when the timeout argument is absent or zero, the request
\* Process makes runs under the default timeout of 1s, never under a
\* deadline that has expired already.
C16_ZeroTimeoutMeansDefault ==
    (reqMade /\ (args.timeout = None \/ args.timeout = Some(0))) =>
      deadline = Some(DefaultToHTTPTimeout)

\* C17 as claimed: createToHTTPOpSpec returns an error for a negative
\* timeout argument, so no spec has Timeout < 0 and Process never runs
\* with one.
C17_NegativeTimeoutRejected ==
    /\ (parsed # "no" /\ args.timeout # None /\ args.timeout[1] < 0) => parsed = "err"
    /\ parsed = "ok" => opSpec.Timeout >= 0
    /\ hpc \notin {"parse", "idle"} => opSpec.Timeout >= 0

\* C18 as claimed: when the response has a status outside 200..299, Process
\* returns an error and the err handed to the dataset's Finish is not nil;
\* a 2xx response yields no error.
C18_Non2xxIsError ==
    (hpc = "returned" /\ resp # None /\ ~invalidType) =>
      IF Is2xx(resp[1])
        THEN ret = Nil
        ELSE /\ IsError(ret)
             /\ dFinish # "" => dFinish # Nil

\* C19: when the block has no column labelled time_column, or that column
\* is not of type Time, Process returns an error, the encoder goroutine is
\* not started and no request is made; otherwise the goroutine is started
\* and the timestamp of every record written is the value the time column
\* holds at the row the record encodes.
C19_TimeColumnValidated ==
    hpc \notin {"parse", "idle"} =>
      IF block.cols[opSpec.TimeColumn] # "TTime"
        THEN /\ hpc = "returned"
             /\ IsError(ret)
             /\ gpc = "none"
             /\ ~reqMade
             /\ written = <<>>
        ELSE /\ gpc # "none"
             /\ \A k \in 1 .. Len(written) :
                   /\ written[k].t = TimeAt(block, written[k].row)
                   /\ opSpec.TimeColumn \notin written[k].fields \cup written[k].tags

\* C19 witness: the column named by time_column is a String column, and
\* Process returned the error without starting the goroutine or a request.
C19_Witness ==
    /\ hpc = "returned"
    /\ opSpec.TimeColumn = "host"
    /\ block.cols["host"] = "TString"
    /\ NumRows(block) = 2
    /\ ret = "column is not of type time"
    /\ gpc = "none"
    /\ ~reqMade

\* C20 as claimed: when encoding a row failed (Encode returned an error, or
\* a value column has an unsupported type), Process returns a non-nil
\* error.
C20_EncodingErrorsReported ==
    (hpc = "returned" /\ gpc = "exited" /\ (encErrs > 0 \/ invalidType)) => IsError(ret)

\* C24 as claimed: when the spec's Timeout is positive, the request Process
\* makes carries a deadline of that duration.
C24_PositiveTimeoutApplied ==
    (reqMade /\ opSpec.Timeout > 0) => deadline = Some(opSpec.Timeout)

\* C26 as claimed: once Process has returned after starting the encoder
\* goroutine, the goroutine is never left at a pipe write that cannot
\* complete: a record to write, the read end open, and nobody reading.
C26_EncoderNeverStuck ==
    (hpc = "returned" /\ gpc = "encode") => (metric.fields = {} \/ prClosed)

(***************************************************************************)
(* Claims about planning (checked under SpecPlan).                         *)
(***************************************************************************)
\* The factory that makes procedure specs of a type.
ProcFactoryOfType(type) ==
    IF type = "*ToHTTPProcedureSpec" THEN "newToHTTPProcedure" ELSE "newStddevProcedure"

\* C23 as claimed: for every procedure spec, Kind() is the kind under which
\* its factories are registered, so the transformation factory found under
\* Kind() is the one registered together with the spec's own factory.
C23_KindConsistent ==
    /\ \A p \in SpecsAtHand : \A r \in inits :
          r.proc = ProcFactoryOfType(p.type) =>
             /\ KindOf(p) = r.kind
             /\ transReg[KindOf(p)] = r.trans
    /\ lookup # None =>
          \A r \in inits :
             r.proc = ProcFactoryOfType(lookup[1].of.type) => lookup[1].factory = r.trans

\* C27 as claimed: newToHTTPProcedure returns an error when the
\* OperationSpec is not a *ToHTTPOpSpec, and on success the spec returned
\* has a non-nil Spec, the op spec given.
C27_ProcedureFromOpSpec ==
    (procErr # "" /\ (proc = None \/ proc[1].type = "*ToHTTPProcedureSpec")) =>
      /\ qsIn.type # "*ToHTTPOpSpec" => IsError(procErr)
      /\ procErr = Nil => (proc[1].Spec # None /\ proc[1].Spec = qsIn.ptr)

\* C28 as claimed: p.Copy() is another object, equal to p: of the same type
\* and, for a ToHTTPProcedureSpec, with the same ToHTTPOpSpec; a
\* transformation built from it finds its op spec.
C28_CopyPreservesContent ==
    /\ copied # None =>
          /\ copied[1].id # proc[1].id
          /\ copied[1].type = proc[1].type
          /\ copied[1].Spec = proc[1].Spec
    /\ (trans # None /\ copied # None /\ trans[1].spec = copied[1] /\ proc[1].Spec # None) =>
          planOutcome # "panic"


(***************************************************************************)
(* Claims about the parser (checked under SpecParse).                      *)
(***************************************************************************)
OperationIDs == {ops[i].ID : i \in 1 .. Len(ops)}

\* C21: the i-th operation created has the counter i-1 in its ID (the
\* counter starts at 0 and grows by one per operation, so IDs are unique
\* and listed in creation order); a query that is one dot-chain of k
\* function calls has exactly k operations and k-1 edges, the i-th edge
\* going from the i-th operation to the (i+1)-th.
C21_ChainGraph ==
    /\ \A i \in 1 .. Len(ops) : ops[i].ID.n = i - 1
    /\ \A i, j \in 1 .. Len(ops) : ops[i].ID = ops[j].ID => i = j
    /\ nStmts = 1 =>
          /\ Len(ops) = nCalls
          /\ Len(edges) = Max(0, nCalls - 1)
          /\ \A i \in 1 .. Len(edges) :
                edges[i] = [Parent |-> ops[i].ID, Child |-> ops[i + 1].ID]
\* A finished one-chain query of three calls.
C21_Witness ==
    /\ nStmts = 1
    /\ ppc = "stmt"
    /\ nCalls = 3
    /\ Len(ops) = 3
    /\ Len(edges) = 2

EdgesInto(id) == SelectSeq(edges, LAMBDA e : e.Child = id)
ParentsOf(j) == {j.receiver} \cup {j.resolved[k] : k \in 1 .. Len(j.resolved)}

\* C22: every edge endpoint is an existing operation; a join has exactly
\* one incoming edge per distinct parent pipeline, also when the pipeline
\* it is called on is named again in its expression; and the first of its
\* incoming edges comes from the pipeline it is called on.
C22_JoinEdges ==
    /\ \A i \in 1 .. Len(edges) :
          edges[i].Parent \in OperationIDs /\ edges[i].Child \in OperationIDs
    /\ \A i \in 1 .. Len(joins) :
          LET into == EdgesInto(joins[i].ID)
          IN /\ Len(into) = Cardinality(ParentsOf(joins[i]))
             /\ {into[k].Parent : k \in 1 .. Len(into)} = ParentsOf(joins[i])
             /\ into[1].Parent = joins[i].receiver
\* `a.join(exp:{a + b})`: the receiver is named again, next to another pipeline.
C22_Witness ==
    \E i \in 1 .. Len(joins) :
        /\ \E k \in 1 .. Len(joins[i].refs) :
              /\ joins[i].refs[k] \in Identifiers
              /\ joins[i].resolved[k] = joins[i].receiver
        /\ Cardinality(ParentsOf(joins[i])) = 2
        /\ Len(EdgesInto(joins[i].ID)) = 2

=============================================================================
